---- MODULE Spec2Model ----
(***************************************************************************)
(* A model of CoinGeckoAPI (src/main.py): the token-list sync, the volume  *)
(* snapshot, the volume refresh, the purge and the two rate-limited        *)
(* fetches, run one call at a time against a SQLite store and an HTTP API. *)
(*                                                                         *)
(* The store is the two tables of token_data.db.  A table that has not     *)
(* been created is part of the state: sqlite3 raises OperationalError on   *)
(* any statement that names it.  The API is the environment: every request *)
(* is answered by a response chosen from a small set.                      *)
(*                                                                         *)
(* Dates are day numbers.  SQLite compares the ISO text 'YYYY-MM-DD' that  *)
(* date() produces, and that order is the order of the days.               *)
(***************************************************************************)
EXTENDS Integers, Sequences, FiniteSets, TLC

(* ---------------------------------------------------------------- bounds *)

\* Longest token list the API returns in one response.
MaxListLen == 2
\* Most TokenVolume rows the store holds before snapshots stop being started.
MaxVolRows == 2
\* Most retrying frames of one fetch the interpreter's stack holds: one more
\* recursive retry raises RecursionError (about 1000 frames in CPython).
MaxRetries == 2

(* ------------------------------------------------------ program constants *)

\* Retry-After default of both fetches.
DefaultRetryAfter == 30
\* Retention window of delete_old_data, in days.
RetentionDays == 21

(* ------------------------------------------------------------- the values *)

\* Token ids in index order (SELECT id FROM tokens walks the primary-key index).
IdOrder == <<"a", "b">>
Ids == {IdOrder[i] : i \in 1..Len(IdOrder)}
Names == {"n1", "n2"}

\* Python values, one record shape for all of them.
PyNone == [t |-> "None", i |-> 0, s |-> "", l |-> <<>>]
PyInt(n) == [t |-> "int", i |-> n, s |-> "", l |-> <<>>]
PyStr(x) == [t |-> "str", i |-> 0, s |-> x, l |-> <<>>]
PyList(xs) == [t |-> "list", i |-> 0, s |-> "", l |-> xs]

\* data['market_data']['total_volume'] of the coin detail: an empty object, or
\* an object with a 'usd' entry.
NoVolumeData == [empty |-> TRUE, usd |-> 0]
UsdVolume(n) == [empty |-> FALSE, usd |-> n]

\* The bodies the coins/markets endpoint can answer with (the ids of a page).
Pages == {<<>>, <<"a">>, <<"a", "b">>}

\* The Retry-After header: absent, or a string of decimal digits.
NoHeader == [present |-> FALSE, digits |-> <<>>]
Header(ds) == [present |-> TRUE, digits |-> ds]
RetryAfterHeaders == {NoHeader, Header(<<5>>), Header(<<6, 0>>)}

\* The days the calendar can move on by between two calls, and the days it
\* shows: the first day, the day after, and the same a retention window later.
DayJumps == {1, RetentionDays}
Calendar == {0, 1, RetentionDays, RetentionDays + 1}

\* What the API can hold as total_volume of the coins.
ApiVolumes ==
    {[id \in Ids |-> IF id = "a" THEN NoVolumeData ELSE UsdVolume(0)],
     [id \in Ids |-> IF id = "a" THEN UsdVolume(5) ELSE UsdVolume(0)]}

\* Rows of the two tables.
TokenRow(id, name) == [id |-> id, name |-> name]
VolumeRow(id, v, d) == [token_id |-> id, total_volume |-> v, date |-> d]

\* All sequences over S of length at most n.
RECURSIVE SeqsUpTo(_, _)
SeqsUpTo(S, n) ==
    IF n = 0 THEN {<<>>}
    ELSE LET shorter == SeqsUpTo(S, n - 1)
         IN  shorter \cup {Append(q, x) : q \in {r \in shorter : Len(r) = n - 1}, x \in S}

\* The bodies the coins/list endpoint can answer with.
ListedTokens == {TokenRow("a", "n1"), TokenRow("a", "n2"), TokenRow("b", "n1")}
TokenLists == SeqsUpTo(ListedTokens, MaxListLen)

\* An HTTP response, or the transport failure of the request (raised).
Response(st, hdr, lst, vol, pg) ==
    [raised |-> FALSE, status |-> st, header |-> hdr, list |-> lst, volume |-> vol,
     page |-> pg]
TransportFailure ==
    [raised |-> TRUE, status |-> 0, header |-> NoHeader, list |-> <<>>,
     volume |-> NoVolumeData, page |-> <<>>]
NoResponse ==
    [raised |-> FALSE, status |-> 0, header |-> NoHeader, list |-> <<>>,
     volume |-> NoVolumeData, page |-> <<>>]


(* -------------------------------------------------------------- the state *)

VARIABLES
    tokensTable,    \* whether table tokens exists in token_data.db
    tokens,         \* its rows, in rowid order
    volumesTable,   \* whether table token_volumes (id, token_id, total_volume,
                    \* date) exists
    volumes,        \* its committed rows, in rowid order
    pending,        \* rows inserted on the open connection and not yet committed
    today,          \* date('now'), as a day number
    apiVolume,      \* what the API holds as total_volume of each coin
    op,             \* the method that is running, or "none"
    pc,             \* where it is: "idle", "start", "request", "sleep", "insert", "done"
    todo,           \* the coin ids the running loop has still to process
    resp,           \* the last response received
    attempts,       \* depth of the retry recursion of the running fetch
    slept,          \* seconds slept since the last response
    result,         \* the value returned by the last fetch or finished method
    fault,          \* the exception the method raised to its caller, or "none"
    out,            \* the lines the method has printed (those of the fetches it
                    \* calls left out)
    pre,            \* the rows of both tables when the method was called
    scenario,       \* progress of the entry point: its phase ("fresh", "syncing",
                    \* "synced", "snapshotting", or "off" once anything else has
                    \* happened) and the token list its sync was answered with
    proc            \* the process: where __main__ is, how often it has called
                    \* its two methods, where the loop of start_scheduler is,
                    \* the jobs that are due, those the running run_pending
                    \* has still to run, and those that are running

store == <<tokensTable, tokens, volumesTable, volumes>>
world == <<today, apiVolume>>
fetch == <<resp, attempts, slept>>
vars == <<tokensTable, tokens, volumesTable, volumes, pending, today,
          apiVolume, op, pc, todo, resp, attempts, slept, result, fault, out, pre,
          scenario, proc>>

NoRows == [tokens |-> <<>>, volumes |-> <<>>]
Phase(ph, lst) == [phase |-> ph, list |-> lst]
Off == Phase("off", <<>>)

\* The three jobs start_scheduler registers, by the method each one calls.
Jobs == {"update_token_volumes", "check_and_update_token_list", "delete_old_data"}

\* The process before its first statement, no scheduler started.
NotStarted ==
    [main |-> "entry", syncs |-> 0, snapshots |-> 0, loop |-> "off", due |-> {},
     runnable |-> {}, running |-> {}]

Methods == {"save_token_list", "check_and_update_token_list", "fetch_token_data",
            "fetch_token_volume", "save_token_volumes", "update_token_volumes",
            "delete_old_data"}

Init ==
    /\ tokensTable = FALSE
    /\ tokens = <<>>
    /\ volumesTable \in BOOLEAN
    /\ volumes = <<>>
    /\ pending = <<>>
    /\ today = 0
    /\ apiVolume \in ApiVolumes
    /\ op = "none"
    /\ pc = "idle"
    /\ todo = <<>>
    /\ resp = NoResponse
    /\ attempts = 0
    /\ slept = 0
    /\ result = PyNone
    /\ fault = "none"
    /\ out = {}
    /\ pre = NoRows
    /\ scenario = Phase("fresh", <<>>)
    /\ proc = NotStarted

(* ------------------------------------------------------- store operations *)

\* The ids of a table's rows.
IdsOf(tbl) == {tbl[i].id : i \in 1..Len(tbl)}

\* get_token_list: SELECT id FROM tokens, answered from the primary-key index,
\* so in the order of the ids.
RECURSIVE IndexScan(_, _)
IndexScan(tbl, order) ==
    IF order = <<>> THEN <<>>
    ELSE LET hits == SelectSeq(tbl, LAMBDA r : r.id = Head(order))
         IN  [i \in 1..Len(hits) |-> hits[i].id] \o IndexScan(tbl, Tail(order))
get_token_list == IndexScan(tokens, IdOrder)

\* {token[0] for token in self.get_token_list()}.
existing_token_ids == {get_token_list[i] : i \in 1..Len(get_token_list)}

\* INSERT INTO tokens VALUES (?, ?): id is the PRIMARY KEY, a second row with
\* the id raises IntegrityError and the table stays as it was.
InsertToken(tbl, row) ==
    IF row.id \in IdsOf(tbl) THEN tbl ELSE Append(tbl, row)

\* INSERT OR REPLACE for every fetched token, whatever is stored: a stored row
\* takes the fetched name.
RECURSIVE UpsertTokens(_, _, _)
UpsertTokens(tbl, existing, token_list) ==
    IF token_list = <<>> THEN tbl
    ELSE LET token == Head(token_list)
             next == IF token.id \in IdsOf(tbl)
                     THEN [i \in 1..Len(tbl) |->
                              IF tbl[i].id = token.id THEN token ELSE tbl[i]]
                     ELSE Append(tbl, token)
         IN  UpsertTokens(next, existing, Tail(token_list))

\* The loop of save_token_list and check_and_update_token_list: every fetched
\* token whose id was not stored when the loop began is inserted; an
\* IntegrityError is passed over.
RECURSIVE InsertNewTokens(_, _, _)
InsertNewTokens(tbl, existing, token_list) ==
    IF token_list = <<>> THEN tbl
    ELSE LET token == Head(token_list)
             next == IF token.id \notin existing
                     THEN InsertToken(tbl, token)
                     ELSE tbl
         IN  InsertNewTokens(next, existing, Tail(token_list))

\* The DELETE with <= for <: the row dated on the boundary goes too.
PurgeRowsInclusive(rows, now) ==
    SelectSeq(rows, LAMBDA r : ~(r.date <= now - RetentionDays))

\* DELETE FROM token_volumes WHERE date < date('now', '-21 days').
PurgeRows(rows, now) ==
    SelectSeq(rows, LAMBDA r : ~(r.date < now - RetentionDays))

(* ------------------------------------------------------- fetch operations *)

\* int(s) of a string of decimal digits.
RECURSIVE ParseInt(_)
ParseInt(ds) ==
    IF ds = <<>> THEN 0
    ELSE 10 * ParseInt(SubSeq(ds, 1, Len(ds) - 1)) + ds[Len(ds)]

\* The header not read: always the default.
RetryAfterDefaultOnly(hdr) == DefaultRetryAfter

\* int(response.headers.get('Retry-After', 30)).
RetryAfter(hdr) ==
    IF hdr.present THEN ParseInt(hdr.digits) ELSE DefaultRetryAfter

\* time.sleep(seconds): the seconds the thread has been suspended on return.
Sleep(seconds) == seconds

\* The test made on the USD figure too: a volume of 0 counts as no data.
DailyVolumeFalsy(total_volume) ==
    IF total_volume.empty \/ total_volume.usd = 0
    THEN PyStr("null") ELSE PyInt(total_volume.usd)

\* daily_volume of fetch_token_volume for a 200 response.
DailyVolume(total_volume) ==
    IF total_volume.empty THEN PyStr("null") ELSE PyInt(total_volume.usd)

\* `return self.fetch_token_...(...)`: a retrying frame hands on what the
\* retry returned.
RetryReturn(v) == v

\* The value that reaches the caller of the outermost frame through `depth`
\* retrying frames.
RECURSIVE Unwind(_, _)
Unwind(depth, v) ==
    IF depth = 0 THEN v ELSE Unwind(depth - 1, RetryReturn(v))

\* What the three endpoints can answer.
ListResponses ==
    {Response(200, NoHeader, lst, NoVolumeData, <<>>) : lst \in TokenLists}
    \cup {Response(st, NoHeader, <<>>, NoVolumeData, <<>>) : st \in {429, 500}}
    \cup {TransportFailure}
RateLimited == {Response(429, h, <<>>, NoVolumeData, <<>>) : h \in RetryAfterHeaders}
VolumeResponses(coin_id) ==
    {Response(200, NoHeader, <<>>, apiVolume[coin_id], <<>>),
     Response(500, NoHeader, <<>>, NoVolumeData, <<>>), TransportFailure}
    \cup RateLimited
PageResponses ==
    {Response(200, NoHeader, <<>>, NoVolumeData, pg) : pg \in Pages}
    \cup {Response(500, NoHeader, <<>>, NoVolumeData, <<>>), TransportFailure}
    \cup RateLimited

\* A response that is neither a success nor a rate limit.
Failed(r) == r.raised \/ r.status \notin {200, 429}


(* -------------------------------------------------------------- the calls *)

\* The entry point's bookkeeping when a method is called: the first call of
\* save_token_list and, after it, the first call of save_token_volumes are
\* the two lines of __main__.
CalledIn(sc, method) ==
    IF sc.phase = "fresh" /\ method = "save_token_list" THEN Phase("syncing", <<>>)
    ELSE IF sc.phase = "synced" /\ method = "save_token_volumes"
    THEN Phase("snapshotting", sc.list)
    ELSE Off

\* A caller (the entry point, the scheduler, a test) calls one method.  A
\* snapshot is started only while the volume table has room for its rows.  The
\* two fetches neither read nor write the store, so a caller tries them on
\* their own against the first store only.
Invoke(method) ==
    /\ method = "save_token_volumes" => Len(volumes) + Len(tokens) <= MaxVolRows
    /\ op' = method
    /\ pc' = IF method \in {"fetch_token_data", "fetch_token_volume"}
             THEN "request" ELSE "start"
    /\ method \in {"fetch_token_data", "fetch_token_volume"} =>
           tokens = <<>> /\ volumes = <<>> /\ today = 0
    /\ IF method = "fetch_token_volume"
       THEN \E coin_id \in Ids : todo' = <<coin_id>>
       ELSE todo' = <<>>
    /\ scenario' = CalledIn(scenario, method)
    /\ pre' = [tokens |-> tokens, volumes |-> volumes]
    /\ UNCHANGED <<store, world, fetch, pending, result, fault, out>>

\* Any method called on its own, outside the process below.
Call ==
    /\ pc = "idle"
    /\ \E method \in Methods : Invoke(method)
    /\ UNCHANGED proc

\* The method has returned or raised; its caller goes on.
Resume ==
    /\ pc = "done"
    /\ pc' = "idle"
    /\ op' = "none"
    /\ todo' = <<>>
    /\ resp' = NoResponse
    /\ attempts' = 0
    /\ slept' = 0
    /\ result' = PyNone
    /\ fault' = "none"
    /\ out' = {}
    /\ pre' = NoRows
    /\ pending' = <<>>
    /\ scenario' = IF scenario.phase = "syncing" THEN Phase("synced", scenario.list)
                   ELSE IF scenario.phase = "snapshotting" THEN Off
                   ELSE scenario
    /\ UNCHANGED <<store, world>>

Return == Resume /\ UNCHANGED proc

\* Midnight passes between two calls.
Tick ==
    /\ pc = "idle"
    /\ \E d \in DayJumps :
        /\ today + d \in Calendar
        /\ today' = today + d
    /\ UNCHANGED <<store, apiVolume, pending, op, pc, todo, fetch, result, fault, out,
                   pre, scenario,
                   proc>>

(* ---------------------------------------------------------- token list sync *)

\* save_token_list: one request outside any try; a status other than 200 ends
\* it before the store is opened; otherwise the table is created if missing
\* and the new ids are inserted and committed.
SaveTokenListCreatesFirst ==
    /\ op = "save_token_list" /\ pc = "start"
    /\ \E r \in ListResponses :
        /\ resp' = r
        /\ IF r.raised
           THEN /\ fault' = "RequestException"
                /\ UNCHANGED <<tokensTable, tokens, out>>
           ELSE IF r.status # 200
           THEN /\ tokensTable' = TRUE
                /\ out' = {"Error fetching token list."}
                /\ UNCHANGED <<tokens, fault>>
           ELSE /\ tokensTable' = TRUE
                /\ tokens' = InsertNewTokens(tokens, existing_token_ids, r.list)
                /\ out' = {"Token list updated."}
                /\ UNCHANGED fault
        /\ scenario' = IF Failed(r) \/ r.status # 200 \/ scenario.phase = "off" THEN Off
                       ELSE Phase(scenario.phase, r.list)
    /\ pc' = "done"
    /\ UNCHANGED <<volumesTable, volumes, world, pending, op, todo, attempts, slept,
                   result, pre,
                   proc>>

SaveTokenList ==
    /\ op = "save_token_list" /\ pc = "start"
    /\ \E r \in ListResponses :
        /\ resp' = r
        /\ IF r.raised
           THEN /\ fault' = "RequestException"
                /\ UNCHANGED <<tokensTable, tokens, out>>
           ELSE IF r.status # 200
           THEN /\ out' = {"Error fetching token list."}
                /\ UNCHANGED <<tokensTable, tokens, fault>>
           ELSE /\ tokensTable' = TRUE
                /\ tokens' = InsertNewTokens(tokens, existing_token_ids, r.list)
                /\ out' = {"Token list updated."}
                /\ UNCHANGED fault
        /\ scenario' = IF Failed(r) \/ r.status # 200 \/ scenario.phase = "off" THEN Off
                       ELSE Phase(scenario.phase, r.list)
    /\ pc' = "done"
    /\ UNCHANGED <<volumesTable, volumes, world, pending, op, todo, attempts, slept,
                   result, pre,
                   proc>>

\* check_and_update_token_list: the same without the CREATE TABLE, so
\* get_token_list raises OperationalError when the table is missing.
CheckAndUpdateTokenList ==
    /\ op = "check_and_update_token_list" /\ pc = "start"
    /\ \E r \in ListResponses :
        /\ resp' = r
        /\ IF r.raised
           THEN /\ fault' = "RequestException"
                /\ UNCHANGED <<tokens, out>>
           ELSE IF r.status # 200
           THEN /\ out' = {"Error fetching token list."}
                /\ UNCHANGED <<tokens, fault>>
           ELSE IF ~tokensTable
           THEN /\ fault' = "OperationalError"
                /\ UNCHANGED <<tokens, out>>
           ELSE /\ tokens' = InsertNewTokens(tokens, existing_token_ids, r.list)
                /\ out' = {"Token list updated."}
                /\ UNCHANGED fault
    /\ pc' = "done"
    /\ UNCHANGED <<tokensTable, volumesTable, volumes, world, pending, op, todo,
                   attempts, slept, result, pre, scenario,
                   proc>>


(* ------------------------------------------------------------ the fetches *)

\* fetch_token_data: one request.  200 returns the parsed body, 429 goes to
\* sleep before the retry, any other status and a RequestException return None.
FetchTokenData ==
    /\ op = "fetch_token_data" /\ pc = "request"
    /\ \E r \in PageResponses :
        /\ resp' = r
        /\ slept' = 0
        /\ IF ~r.raised /\ r.status = 429
           THEN /\ pc' = "sleep"
                /\ UNCHANGED result
           ELSE /\ pc' = "done"
                /\ result' = Unwind(attempts, IF ~r.raised /\ r.status = 200
                                              THEN PyList(r.page) ELSE PyNone)
    /\ UNCHANGED <<store, world, pending, op, todo, attempts, fault, out, pre, scenario,
                   proc>>

\* Lines 28-32: time.sleep(retry_after), then the recursive call, which
\* raises RecursionError when the frames of the earlier retries have used up
\* the interpreter's stack; no except clause of the method catches it.
FetchTokenDataRetry ==
    /\ op = "fetch_token_data" /\ pc = "sleep"
    /\ slept' = Sleep(RetryAfter(resp.header))
    /\ IF attempts < MaxRetries
       THEN /\ attempts' = attempts + 1
            /\ pc' = "request"
            /\ UNCHANGED fault
       ELSE /\ fault' = "RecursionError"
            /\ pc' = "done"
            /\ UNCHANGED attempts
    /\ UNCHANGED <<store, world, pending, op, todo, resp, result, out, pre, scenario,
                   proc>>

\* fetch_token_volume, called by a caller of its own or by the loop of
\* save_token_volumes for the coin at the head of todo.
FetchTokenVolume ==
    /\ op \in {"fetch_token_volume", "save_token_volumes"} /\ pc = "request"
    /\ \E r \in VolumeResponses(Head(todo)) :
        /\ resp' = r
        /\ slept' = 0
        /\ IF ~r.raised /\ r.status = 429
           THEN /\ pc' = "sleep"
                /\ UNCHANGED result
           ELSE /\ pc' = IF op = "fetch_token_volume" THEN "done" ELSE "insert"
                /\ result' = Unwind(attempts, IF ~r.raised /\ r.status = 200
                                              THEN DailyVolume(r.volume) ELSE PyNone)
        /\ scenario' = IF Failed(r) THEN Off ELSE scenario
    /\ UNCHANGED <<store, world, pending, op, todo, attempts, fault, out, pre,
                   proc>>

\* Lines 135-139: time.sleep(retry_after), then the recursive call, which
\* raises RecursionError when the frames of the earlier retries have used up
\* the interpreter's stack.  Neither fetch_token_volume nor the loop of
\* save_token_volumes catches it: the rows inserted so far are not committed.
FetchTokenVolumeRetry ==
    /\ op \in {"fetch_token_volume", "save_token_volumes"} /\ pc = "sleep"
    /\ slept' = Sleep(RetryAfter(resp.header))
    /\ IF attempts < MaxRetries
       THEN /\ attempts' = attempts + 1
            /\ pc' = "request"
            /\ UNCHANGED <<pending, fault, scenario>>
       ELSE /\ fault' = "RecursionError"
            /\ pc' = "done"
            /\ pending' = <<>>
            /\ scenario' = Off
            /\ UNCHANGED attempts
    /\ UNCHANGED <<store, world, op, todo, resp, result, out, pre,
                   proc>>

(* ----------------------------------------------------------- the snapshot *)

\* save_token_volumes up to its loop: get_token_list raises OperationalError
\* without the tokens table; no token ends the method with None.
SaveTokenVolumesStart ==
    /\ op = "save_token_volumes" /\ pc = "start"
    /\ IF ~tokensTable
       THEN /\ fault' = "OperationalError"
            /\ pc' = "done"
            /\ UNCHANGED <<todo, out>>
       ELSE IF Len(get_token_list) = 0
       THEN /\ out' = {"No tokens found in the token list. Skipping saving volumes"}
            /\ pc' = "done"
            /\ UNCHANGED <<todo, fault>>
       ELSE /\ todo' = get_token_list
            /\ pc' = "request"
            /\ UNCHANGED <<fault, out>>
    /\ scenario' = IF ~tokensTable THEN Off ELSE scenario
    /\ UNCHANGED <<store, world, pending, op, fetch, result, pre,
                   proc>>

\* The INSERT with the volume left unbound: NULL is stored.
InsertVolumeUnbound(rows, token_id, volume) ==
    Append(rows, VolumeRow(token_id, PyNone, today))

\* The INSERT into a table with a unique (token_id, date) whose conflict is
\* ignored: no second row for the token and the day.
InsertVolumeOnce(rows, token_id, volume) ==
    IF \E i \in 1..Len(volumes \o rows) :
           /\ (volumes \o rows)[i].token_id = token_id
           /\ (volumes \o rows)[i].date = today
    THEN rows
    ELSE Append(rows, VolumeRow(token_id, volume, today))

\* INSERT INTO token_volumes (token_id, total_volume): the date column takes
\* its default, the current day.
InsertVolume(rows, token_id, volume) == Append(rows, VolumeRow(token_id, volume, today))

\* What the store can answer an INSERT INTO token_volumes with: without the
\* table always OperationalError (no such table); with it the row is stored,
\* or a constraint of the table refuses it (IntegrityError), or the database
\* cannot be written (OperationalError).
InsertOutcomes ==
    IF ~volumesTable THEN {"OperationalError"}
    ELSE {"none", "IntegrityError", "OperationalError"}

\* The lines of the two except clauses of the loop.
ErrorLine(error, token_id) ==
    IF error = "IntegrityError" THEN "Database integrity error for " \o token_id
    ELSE "Database operational error for " \o token_id

\* The loop body whose except clauses print their line and raise again: the
\* error of the insert leaves the method, nothing is committed.
SaveTokenVolumesInsertUncaught ==
    /\ op = "save_token_volumes" /\ pc = "insert"
    /\ \E error \in InsertOutcomes :
        LET token_id == Head(todo)
            inserted == InsertVolume(pending, token_id, result)
        IN  /\ scenario' = IF error # "none" THEN Off ELSE scenario
            /\ IF error # "none"
               THEN /\ fault' = error
                    /\ pc' = "done"
                    /\ pending' = <<>>
                    /\ out' = out \cup {ErrorLine(error, token_id)}
                    /\ UNCHANGED <<volumes, result>>
               ELSE IF Tail(todo) = <<>>
               THEN /\ volumes' = volumes \o inserted
                    /\ pending' = <<>>
                    /\ result' = PyStr("Token volume data saved.")
                    /\ pc' = "done"
                    /\ UNCHANGED <<fault, out>>
               ELSE /\ pending' = inserted
                    /\ pc' = "request"
                    /\ UNCHANGED <<volumes, result, fault, out>>
    /\ todo' = Tail(todo)
    /\ resp' = NoResponse
    /\ attempts' = 0
    /\ slept' = 0
    /\ UNCHANGED <<tokensTable, tokens, volumesTable, world, op, pre,
                   proc>>

\* The rest of one turn of the loop: the insert, whose IntegrityError or
\* OperationalError is caught and printed; after the last coin, commit and
\* return.
SaveTokenVolumesInsert ==
    /\ op = "save_token_volumes" /\ pc = "insert"
    /\ \E error \in InsertOutcomes :
        LET token_id == Head(todo)
            inserted == IF error # "none" THEN pending
                        ELSE InsertVolume(pending, token_id, result)
            printed  == IF error # "none"
                        THEN out \cup {ErrorLine(error, token_id)} ELSE out
        IN  /\ scenario' = IF error # "none" THEN Off ELSE scenario
            /\ IF Tail(todo) = <<>>
               THEN /\ volumes' = volumes \o inserted
                    /\ pending' = <<>>
                    /\ result' = PyStr("Token volume data saved.")
                    /\ pc' = "done"
                    /\ out' = printed
               ELSE /\ pending' = inserted
                    /\ pc' = "request"
                    /\ out' = printed
                    /\ UNCHANGED <<volumes, result>>
    /\ todo' = Tail(todo)
    /\ resp' = NoResponse
    /\ attempts' = 0
    /\ slept' = 0
    /\ UNCHANGED <<tokensTable, tokens, volumesTable, world, op, fault, pre,
                   proc>>

(* ------------------------------------------------------------ the refresh *)

\* get_token_volume: SELECT id FROM token_volumes, rows as tuples (id,).
get_token_volume == [i \in 1..Len(volumes) |-> <<i>>]

\* update_token_volumes.  SELECT id raises OperationalError when the table is
\* missing.  No row ends the method.  Otherwise the first
\* turn of the loop evaluates token['id'] on a tuple, which raises TypeError
\* before anything is fetched or written.
UpdateTokenVolumes ==
    /\ op = "update_token_volumes" /\ pc = "start"
    /\ fault' = IF ~volumesTable THEN "OperationalError"
                ELSE IF Len(get_token_volume) = 0 THEN "none"
                ELSE "TypeError"
    /\ pc' = "done"
    /\ UNCHANGED <<store, world, pending, op, todo, fetch, result, out, pre, scenario,
                   proc>>

(* -------------------------------------------------------------- the purge *)

\* The purge with the wrong table named: DELETE FROM tokens.
DeleteOldTokens ==
    /\ op = "delete_old_data" /\ pc = "start"
    /\ IF ~tokensTable
       THEN /\ fault' = "OperationalError"
            /\ UNCHANGED <<tokens, out>>
       ELSE /\ tokens' = <<>>
            /\ out' = {"Token volume data deleted."}
            /\ UNCHANGED fault
    /\ pc' = "done"
    /\ UNCHANGED <<tokensTable, volumesTable, volumes, world, pending, op, todo, fetch,
                   result, pre, scenario,
                   proc>>

\* delete_old_data: the DELETE raises OperationalError without the table.
DeleteOldData ==
    /\ op = "delete_old_data" /\ pc = "start"
    /\ IF ~volumesTable
       THEN /\ fault' = "OperationalError"
            /\ UNCHANGED <<volumes, out>>
       ELSE /\ volumes' = PurgeRows(volumes, today)
            /\ out' = {"Token volume data deleted."}
            /\ UNCHANGED fault
    /\ pc' = "done"
    /\ UNCHANGED <<tokensTable, tokens, volumesTable, world, pending, op, todo, fetch,
                   result, pre, scenario,
                   proc>>

(* ------------------------------------------------------------ the process *)

\* __main__, first statement after the constructor: api.save_token_list().
EntrySync ==
    /\ proc.main = "entry" /\ proc.loop = "off"
    /\ pc = "idle"
    /\ Invoke("save_token_list")
    /\ proc' = [proc EXCEPT !.main = "sync", !.syncs = @ + 1]

\* save_token_list is back: an exception ends the process, none in __main__
\* being caught.
EntrySyncReturns ==
    /\ proc.main = "sync"
    /\ Resume
    /\ proc' = [proc EXCEPT !.main = IF fault # "none" THEN "died" ELSE "synced"]

\* __main__, second statement: api.save_token_volumes().
EntrySnapshot ==
    /\ proc.main = "synced"
    /\ pc = "idle"
    /\ Invoke("save_token_volumes")
    /\ proc' = [proc EXCEPT !.main = "snapshot", !.snapshots = @ + 1]

\* save_token_volumes is back and the process ends.
EntrySnapshotReturns ==
    /\ proc.main = "snapshot"
    /\ Resume
    /\ proc' = [proc EXCEPT !.main = IF fault # "none" THEN "died" ELSE "exited"]

\* start_scheduler, which __main__ does not call: a caller of its own starts
\* it on the store as it is.  The three jobs are registered, none due yet.
StartScheduler ==
    /\ proc.loop = "off"
    /\ proc.main \in {"entry", "exited", "died"}
    /\ pc = "idle"
    /\ proc' = [proc EXCEPT !.loop = "check", !.due = {}]
    /\ UNCHANGED <<store, world, pending, op, pc, todo, fetch, result, fault, out, pre,
                   scenario>>

\* The clock reaches the next_run of a job, whatever the thread is doing.
BecomeDue ==
    /\ proc.loop \notin {"off", "crashed"}
    /\ \E job \in Jobs \ proc.due : proc' = [proc EXCEPT !.due = @ \cup {job}]
    /\ UNCHANGED <<store, world, pending, op, pc, todo, fetch, result, fault, out, pre,
                   scenario>>

\* run_pending that hands every due job to a thread of its own and returns.
RunPendingThreaded ==
    /\ proc.loop = "check"
    /\ proc' = [proc EXCEPT !.running = @ \cup proc.due, !.loop = "sleep"]
    /\ UNCHANGED <<store, world, pending, op, pc, todo, fetch, result, fault, out, pre,
                   scenario>>

\* schedule.run_pending(), the due-check: the jobs that should run now are
\* collected; they are then run one after the other.
RunPending ==
    /\ proc.loop = "check"
    /\ proc' = [proc EXCEPT !.runnable = proc.due,
                            !.loop = IF proc.due = {} THEN "sleep" ELSE "run"]
    /\ UNCHANGED <<store, world, pending, op, pc, todo, fetch, result, fault, out, pre,
                   scenario>>

\* run_pending calls the method of the next collected job (the order is that
\* of the jobs' next_run, any order here).
RunJob ==
    /\ proc.loop = "run"
    /\ pc = "idle"
    /\ \E job \in proc.runnable :
        /\ Invoke(job)
        /\ proc' = [proc EXCEPT !.runnable = @ \ {job}, !.running = @ \cup {job}]

\* A run_pending that catches what a job raises and goes on.
JobReturnsIsolated ==
    /\ proc.loop = "run"
    /\ Resume
    /\ proc' = [proc EXCEPT !.running = {},
                            !.due = @ \ {op},
                            !.loop = IF proc.runnable = {} THEN "sleep" ELSE "run"]

\* The job's method is back.  What it raised leaves run_pending and
\* start_scheduler, neither having a try: the loop is over.  Otherwise the job
\* is scheduled again and the next collected job, or time.sleep(1), follows.
JobReturns ==
    /\ proc.loop = "run"
    /\ Resume
    /\ proc' = IF fault # "none"
               THEN [proc EXCEPT !.running = {}, !.loop = "crashed"]
               ELSE [proc EXCEPT !.running = {},
                                 !.due = @ \ {op},
                                 !.loop = IF proc.runnable = {} THEN "sleep" ELSE "run"]

\* time.sleep(1), then the next turn of `while True`.
SleepOneSecond ==
    /\ proc.loop = "sleep"
    /\ proc' = [proc EXCEPT !.loop = "check"]
    /\ UNCHANGED <<store, world, pending, op, pc, todo, fetch, result, fault, out, pre,
                   scenario>>

(* ------------------------------------------------------ the specification *)

Next ==
    \/ Call
    \/ Return
    \/ Tick
    \/ SaveTokenList
    \/ CheckAndUpdateTokenList
    \/ FetchTokenData
    \/ FetchTokenDataRetry
    \/ FetchTokenVolume
    \/ FetchTokenVolumeRetry
    \/ SaveTokenVolumesStart
    \/ SaveTokenVolumesInsert
    \/ UpdateTokenVolumes
    \/ DeleteOldData

Spec == Init /\ [][Next]_vars

\* The process: __main__, and start_scheduler for a caller that starts it.
ProcNext ==
    \/ EntrySync
    \/ EntrySyncReturns
    \/ EntrySnapshot
    \/ EntrySnapshotReturns
    \/ StartScheduler
    \/ BecomeDue
    \/ RunPending
    \/ RunJob
    \/ JobReturns
    \/ SleepOneSecond
    \/ Tick
    \/ SaveTokenList
    \/ CheckAndUpdateTokenList
    \/ FetchTokenVolume
    \/ FetchTokenVolumeRetry
    \/ SaveTokenVolumesStart
    \/ SaveTokenVolumesInsert
    \/ UpdateTokenVolumes
    \/ DeleteOldData

ProcSpec == Init /\ [][ProcNext]_vars


(* ---------------------------------------------------------- the properties *)

\* The state a method leaves behind, before its caller goes on.
Finished(method) == pc = "done" /\ op = method

\* A 200 answer was received.
Answered200 == ~resp.raised /\ resp.status = 200

\* How many rows of a table satisfy a test.
CountRows(rows, Test(_)) == Cardinality({i \in 1..Len(rows) : Test(rows[i])})

\* C1: after a token-list sync that was answered 200, the stored ids are the
\* ids stored before and the ids of the fetched list, no id is stored twice,
\* and every row stored before is still there.
C1_SyncStoresUnion ==
    (pc = "done" /\ op \in {"save_token_list", "check_and_update_token_list"}
        /\ Answered200) =>
        /\ IdsOf(tokens) = IdsOf(pre.tokens) \cup IdsOf(resp.list)
        /\ \A i, j \in 1..Len(tokens) : tokens[i].id = tokens[j].id => i = j
        /\ \A i \in 1..Len(pre.tokens) : \E j \in 1..Len(tokens) : tokens[j] = pre.tokens[i]

\* The same of save_token_list alone, which creates the table it needs.
C1_SaveTokenListStoresUnion ==
    (Finished("save_token_list") /\ Answered200) =>
        /\ IdsOf(tokens) = IdsOf(pre.tokens) \cup IdsOf(resp.list)
        /\ \A i, j \in 1..Len(tokens) : tokens[i].id = tokens[j].id => i = j
        /\ \A i \in 1..Len(pre.tokens) : \E j \in 1..Len(tokens) : tokens[j] = pre.tokens[i]

\* The seconds a 429 response asks the client to wait: its Retry-After, or 30.
Advertised(r) ==
    IF r.header = NoHeader THEN 30
    ELSE IF r.header = Header(<<5>>) THEN 5
    ELSE 60

\* A fetch has handed its value to its caller.
FetchReturned ==
    \/ pc = "done" /\ op \in {"fetch_token_data", "fetch_token_volume"}
    \/ pc = "insert" /\ op = "save_token_volumes"

\* The payload of a 200 response, as the fetch that is running returns it.
Payload(r) ==
    IF op = "fetch_token_data" THEN PyList(r.page)
    ELSE IF r.volume.empty THEN PyStr("null")
    ELSE PyInt(r.volume.usd)

\* C2: a retry request is issued only after a 429 and after sleeping at least
\* the seconds that 429 advertised (30 when it advertised none), and a fetch
\* that was answered 429 one or more times and then 200 returns the payload of
\* the 200 response.
C2_RetryWaitsThenReturnsPayload ==
    /\ pc = "sleep" => (~resp.raised /\ resp.status = 429 /\ slept = 0)
    /\ (pc = "request" /\ attempts > 0) =>
           (~resp.raised /\ resp.status = 429 /\ slept >= Advertised(resp))
    /\ (FetchReturned /\ attempts > 0 /\ Answered200) => result = Payload(resp)

C2_RetriedFetchReturned ==
    /\ Finished("fetch_token_data")
    /\ attempts = MaxRetries
    /\ Answered200
    /\ result = PyList(<<"a", "b">>)

\* C3: fetch_token_volume returns the string "null" for a 200 response with
\* an empty total-volume object, the number 0 for one with a USD volume of 0,
\* and None for a status that is neither 200 nor 429; the three differ.
C3_VolumeOutcomesDistinct ==
    (FetchReturned /\ op # "fetch_token_data") =>
        /\ (Answered200 /\ resp.volume.empty) => result = PyStr("null")
        /\ (Answered200 /\ ~resp.volume.empty /\ resp.volume.usd = 0) => result = PyInt(0)
        /\ (~resp.raised /\ resp.status \notin {200, 429}) => result = PyNone
        /\ Cardinality({PyStr("null"), PyInt(0), PyNone}) = 3

C3_NoVolumeDataReturned ==
    /\ Finished("fetch_token_volume")
    /\ Answered200
    /\ resp.volume.empty
    /\ result = PyStr("null")

\* C4: after the purge no stored volume row is dated before today - 21, and
\* every row stored before that is dated today - 21 or later is still stored,
\* as often as before; a row dated exactly today - 21 stays.
C4_PurgeKeepsWindow ==
    Finished("delete_old_data") =>
        /\ \A i \in 1..Len(volumes) : volumes[i].date >= today - 21
        /\ \A i \in 1..Len(pre.volumes) :
               pre.volumes[i].date >= today - 21 =>
                   CountRows(volumes, LAMBDA r : r = pre.volumes[i])
                       = CountRows(pre.volumes, LAMBDA r : r = pre.volumes[i])

C4_BoundaryRowKept ==
    /\ Finished("delete_old_data")
    /\ \E i \in 1..Len(volumes) : volumes[i].date = today - 21
    /\ \E i \in 1..Len(pre.volumes) : pre.volumes[i].date < today - 21
    /\ Len(volumes) < Len(pre.volumes)

\* The token list and the volumes of the entry point's scenario: N tokens of
\* distinct ids, each with a USD volume, the volumes distinct.
DistinctTokens(lst) ==
    /\ \A i, j \in 1..Len(lst) : lst[i].id = lst[j].id => i = j
    /\ \A i \in 1..Len(lst) : ~apiVolume[lst[i].id].empty
    /\ \A i, j \in 1..Len(lst) :
           apiVolume[lst[i].id].usd = apiVolume[lst[j].id].usd => i = j

\* C5: from an empty store with the volume table present, one sync and one
\* snapshot against an API that lists N tokens of distinct ids and distinct
\* volumes, with no failed request, leave exactly N token rows, those listed,
\* and exactly N volume rows, one per token, dated today and holding the
\* volume the API reports for the token.
C5_SyncThenSnapshot ==
    (Finished("save_token_volumes") /\ scenario.phase = "snapshotting"
        /\ volumesTable /\ DistinctTokens(scenario.list)) =>
        LET listed == scenario.list IN
        /\ Len(tokens) = Len(listed)
        /\ \A i \in 1..Len(listed) : \E j \in 1..Len(tokens) : tokens[j] = listed[i]
        /\ Len(volumes) = Len(listed)
        /\ \A i \in 1..Len(listed) :
               CountRows(volumes, LAMBDA r :
                   /\ r.token_id = listed[i].id
                   /\ r.date = today
                   /\ r.total_volume = PyInt(apiVolume[listed[i].id].usd)) = 1

C5_TwoTokensSnapshotted ==
    /\ Finished("save_token_volumes")
    /\ scenario.phase = "snapshotting"
    /\ volumesTable
    /\ DistinctTokens(scenario.list)
    /\ Len(scenario.list) = 2
    /\ Len(volumes) = 2


\* The coin ids that have a volume row in a table.
OnRecord(rows) == {rows[i].token_id : i \in 1..Len(rows)}

\* What a fetch of the coin's volume returns when it is answered 200.
FreshVolume(token_id) ==
    IF apiVolume[token_id].empty THEN PyStr("null")
    ELSE PyInt(apiVolume[token_id].usd)

\* C6: after a refresh every volume row dated today holds the volume the API
\* reports for its token, and every row of another date is as it was.
C6_RefreshUpdatesTodaysRow ==
    (Finished("update_token_volumes") /\ volumesTable) =>
        /\ \A i \in 1..Len(volumes) :
               volumes[i].date = today =>
                   volumes[i].total_volume = FreshVolume(volumes[i].token_id)
        /\ \A i \in 1..Len(pre.volumes) :
               pre.volumes[i].date # today =>
                   \E j \in 1..Len(volumes) : volumes[j] = pre.volumes[i]

\* C7: after a refresh every token on record has a row dated today, and a
\* token that had rows dated today before has as many as before.
C7_RefreshInsertsWhenNoRowToday ==
    (Finished("update_token_volumes") /\ volumesTable) =>
        \A id \in OnRecord(pre.volumes) :
            LET before == CountRows(pre.volumes,
                                    LAMBDA r : r.token_id = id /\ r.date = today)
                after  == CountRows(volumes,
                                    LAMBDA r : r.token_id = id /\ r.date = today)
            IN  /\ after >= 1
                /\ before >= 1 => after = before

\* Yesterday's stored volume of a token is 0, or no row is dated yesterday.
NothingYesterday(id) ==
    \A i \in 1..Len(volumes) :
        (volumes[i].token_id = id /\ volumes[i].date = today - 1) =>
            volumes[i].total_volume = PyInt(0)

\* C8: a refresh prints the spike line when a token on record has no volume
\* or volume 0 stored for yesterday and the API reports a positive volume.
C8_SpikeOnPositiveAfterZero ==
    (Finished("update_token_volumes") /\ volumesTable) =>
        \A id \in OnRecord(pre.volumes) :
            (NothingYesterday(id) /\ ~apiVolume[id].empty /\ apiVolume[id].usd > 0) =>
                "volume is 2x lol" \in out

\* C9: every stored volume row names the id of a stored token.
C9_VolumeRowsNameTokens ==
    \A i \in 1..Len(volumes) : volumes[i].token_id \in IdsOf(tokens)

C9_BothTokensHaveVolumes ==
    /\ pc = "idle"
    /\ OnRecord(volumes) = Ids
    /\ today > 0

\* C10: no step removes or changes a token row: every row stays at its place
\* with its id and its name, whatever a later token list says.
C10_TokenRowsOnlyAdded ==
    [][\A i \in 1..Len(tokens) : i <= Len(tokens') /\ tokens'[i] = tokens[i]]_vars

\* A sync answered with another name for a stored id and without another
\* stored id has left both rows as they were.
C10_RenamedAndDelistedKept ==
    /\ pc = "done" /\ op \in {"save_token_list", "check_and_update_token_list"}
    /\ Answered200
    /\ \E i \in 1..Len(pre.tokens) : \E j \in 1..Len(resp.list) :
           /\ resp.list[j].id = pre.tokens[i].id
           /\ resp.list[j].name # pre.tokens[i].name
    /\ \E i \in 1..Len(pre.tokens) : pre.tokens[i].id \notin IdsOf(resp.list)
    /\ tokens = pre.tokens


\* The insert of a token's row failed in the snapshot that has finished.
InsertFailed(id) ==
    \/ ("Database integrity error for " \o id) \in out
    \/ ("Database operational error for " \o id) \in out

\* C11: a snapshot in which the insert of a token's row raised IntegrityError
\* or OperationalError, and no fetch ran out of stack, has gone through every
\* token, has committed one row
\* for each token whose insert succeeded and none for the others, and has
\* returned its completion string without a fault.
C11_SnapshotSurvivesRowErrors ==
    (/\ Finished("save_token_volumes")
     /\ fault # "RecursionError"
     /\ \E id \in IdsOf(tokens) : InsertFailed(id)) =>
        /\ fault = "none"
        /\ result = PyStr("Token volume data saved.")
        /\ todo = <<>>
        /\ pending = <<>>
        /\ \A id \in IdsOf(tokens) :
               CountRows(volumes, LAMBDA r : r.token_id = id)
                   = CountRows(pre.volumes, LAMBDA r : r.token_id = id)
                     + (IF InsertFailed(id) THEN 0 ELSE 1)

C11_OneRowFailedOneStored ==
    /\ Finished("save_token_volumes")
    /\ volumesTable
    /\ InsertFailed("a")
    /\ ~InsertFailed("b")
    /\ fault = "none"
    /\ Len(volumes) = Len(pre.volumes) + 1
    /\ volumes[Len(volumes)].token_id = "b"


\* The two methods that fetch the token list.
SyncMethods == {"save_token_list", "check_and_update_token_list"}

\* C12: a method that calls the API and whose call ended in a status other
\* than 200 and 429, or in a transport failure, completes without a fault;
\* the two fetches then return None.
C12_FailedCallCompletes ==
    (/\ pc = "done"
     /\ op \in SyncMethods \cup {"fetch_token_data", "fetch_token_volume"}
     /\ Failed(resp)) =>
        /\ fault = "none"
        /\ op \in {"fetch_token_data", "fetch_token_volume"} => result = PyNone

\* C13: no method returns normally with 429 as the answer to its last call:
\* a call answered 429 is made again.
C13_RateLimitRetried ==
    (pc = "done" /\ fault = "none") => ~(~resp.raised /\ resp.status = 429)

\* C19: a token-list sync whose fetch is answered with a status other than
\* 200 leaves the two tables, and whether they exist, as they were.
C19_FailedSyncLeavesStore ==
    [][(/\ op \in SyncMethods
        /\ pc = "start"
        /\ pc' = "done"
        /\ ~resp'.raised
        /\ resp'.status # 200) => UNCHANGED store]_vars

C19_FailedSyncOverRows ==
    /\ pc = "done"
    /\ op \in SyncMethods
    /\ ~resp.raised
    /\ resp.status = 500
    /\ fault = "none"
    /\ tokens # <<>>
    /\ volumes # <<>>
    /\ tokens = pre.tokens
    /\ volumes = pre.volumes


\* The number of rows of a token and a day.
RowsOfDay(rows, id, day) ==
    CountRows(rows, LAMBDA r : r.token_id = id /\ r.date = day)

\* C17: a snapshot adds one row dated today for every stored token whose
\* insert did not fail, whether or not the token has a row of today already,
\* and while the day lasts no step lowers the number of rows of a token and
\* the day: a second snapshot of the day leaves duplicates, and they stay.
C17_DuplicatesMadeAndKept ==
    [][/\ (op = "save_token_volumes" /\ pc # "done" /\ pc' = "done" /\ fault' = "none") =>
              \A id \in IdsOf(tokens) :
                  ~InsertFailed(id)' =>
                      RowsOfDay(volumes', id, today) = RowsOfDay(pre.volumes, id, today) + 1
       /\ today' = today =>
              \A id \in Ids : RowsOfDay(volumes', id, today) >= RowsOfDay(volumes, id, today)
      ]_vars

C17_TwoRowsOfOneDay ==
    /\ Finished("save_token_volumes")
    /\ tokens # <<>>
    /\ \E id \in IdsOf(tokens) :
           /\ RowsOfDay(pre.volumes, id, today) = 1
           /\ RowsOfDay(volumes, id, today) = 2


\* The methods that request with the 429 retry.
RetryingMethods == {"fetch_token_data", "fetch_token_volume", "save_token_volumes"}

\* C16: the retry never gives up: no method that fetches with the retry ends
\* while 429 is the answer to its last request.
C16_RetryNeverGivesUp ==
    (pc = "done" /\ op \in RetryingMethods) => ~(~resp.raised /\ resp.status = 429)


\* C14: the jobs of the scheduler run one at a time: at most one is running,
\* and it is the method the thread is in; a job starts only when none is
\* running; and the due-check is made only when none is running.
C14_JobsOneAtATime ==
    [][/\ Cardinality(proc'.running) <= 1
       /\ proc'.running # {} => proc'.running = {op'}
       /\ proc'.running \ proc.running # {} => proc.running = {}
       /\ (proc.loop = "check" /\ proc'.loop # "check") =>
              (proc.running = {} /\ pc = "idle")
      ]_vars

C14_DueWhileAnotherRuns ==
    /\ proc.loop = "run"
    /\ pc = "start"
    /\ proc.running = {"check_and_update_token_list"}
    /\ "delete_old_data" \in proc.due
    /\ "delete_old_data" \notin proc.runnable

\* C15: when the entry point is over it has called the token-list sync once
\* and the snapshot once.
C15_EntryRunsSyncThenSnapshot ==
    proc.main \in {"exited", "died"} => (proc.syncs = 1 /\ proc.snapshots = 1)

\* C18: when a job returns to the scheduler with an exception the loop is
\* over, and once it is over it stays so and no method runs.
C18_NoFaultIsolation ==
    [][/\ (proc.loop = "run" /\ pc = "done" /\ fault # "none" /\ pc' = "idle") =>
              proc'.loop = "crashed"
       /\ proc.loop = "crashed" =>
              (proc'.loop = "crashed" /\ proc'.running = {} /\ op' = "none"
               /\ pc' = "idle")
      ]_vars

C18_CrashedWithJobsLeft ==
    /\ proc.loop = "crashed"
    /\ proc.runnable # {}
    /\ proc.due # {}
    /\ volumes # <<>>
    /\ op = "none"

====
